---- MODULE Spec2Model ----
(***************************************************************************)
(* The environment configuration of the coffee-shop front end.             *)
(*                                                                         *)
(* The repository holds two variants of one module, each a single          *)
(* statement `export const environment = { ... }`:                         *)
(*   src/frontend/src/environments/environment.prod.ts                     *)
(*   src/unnamed/part_000                                                  *)
(* A build bundles one of them.  Evaluating the bundled module binds       *)
(* `environment` to the object literal; afterwards its importers (the HTTP *)
(* client and the authentication integration) read its fields.             *)
(*                                                                         *)
(* Strings are TLA+ strings; Len, SubSeq and \o act on them as on          *)
(* sequences of characters, and a character is a string of length one.     *)
(***************************************************************************)
EXTENDS Integers, Sequences, FiniteSets, TLC

VARIABLES
    variant,      \* which of the two module files the build bundled
    loaded,       \* whether the bundled module has been evaluated
    environment,  \* the exported binding: <<>> until the module is evaluated
    observed      \* per importer: the fields it has read, with the values it got

vars == <<variant, loaded, environment, observed>>

----------------------------------------------------------------------------
(* The two module files.                                                   *)

ProdTs  == "frontend/src/environments/environment.prod.ts"
Part000 == "unnamed/part_000"

Variants == {ProdTs, Part000}

\* src/frontend/src/environments/environment.prod.ts, lines 1-10
EnvironmentProdTs ==
    [ production   |-> TRUE,
      apiServerUrl |-> "https://coffee-shop-backend.onrender.com/",
      auth0 |->
        [ url         |-> "amrikhudair.eu",
          audience    |-> "https://coffee-shop.test",
          clientId    |-> "6foUBjR8Uys0PRrhAEVJ5BF6lltFsYBX",
          callbackURL |-> "http://localhost:8100" ] ]

\* src/unnamed/part_000, lines 1-10
EnvironmentPart000 ==
    [ production   |-> TRUE,
      apiServerUrl |-> "https://coffee-shop-backend.onrender.com/",
      auth0 |->
        [ url         |-> "amrikhudair.eu",
          audience    |-> "https://coffee-shop-delta.vercel.app",
          clientId    |-> "6foUBjR8Uys0PRrhAEVJ5BF6lltFsYBX",
          callbackURL |-> "https://coffee-shop-delta.vercel.app" ] ]

\* The object literal of module file v.
ModuleLiteral(v) ==
    IF v = ProdTs THEN EnvironmentProdTs ELSE EnvironmentPart000

\* The binding before the module is evaluated holds no object.
Uninitialized == <<>>

----------------------------------------------------------------------------
(* Field access.                                                           *)

\* The six leaves of the record, by their access path.
Fields ==
    { "production", "apiServerUrl",
      "auth0.url", "auth0.audience", "auth0.clientId", "auth0.callbackURL" }

StringFields == Fields \ {"production"}

\* env.<path>
Get(env, f) ==
    CASE f = "production"        -> env.production
      [] f = "apiServerUrl"      -> env.apiServerUrl
      [] f = "auth0.url"         -> env.auth0.url
      [] f = "auth0.audience"    -> env.auth0.audience
      [] f = "auth0.clientId"    -> env.auth0.clientId
      [] f = "auth0.callbackURL" -> env.auth0.callbackURL

\* The importers of the module: the HTTP client and the authentication
\* integration.
Readers == {"httpClient", "authService"}

NothingRead == [f \in {} |-> TRUE]

----------------------------------------------------------------------------
(* The state machine.                                                      *)

Init ==
    /\ variant \in Variants
    /\ loaded = FALSE
    /\ environment = Uninitialized
    /\ observed = [r \in Readers |-> NothingRead]

\* Evaluation of module file v, when it is the bundled one, binds the
\* exported constant to the object literal: `export const environment = lit;`
Evaluate(v, lit) ==
    /\ variant = v
    /\ ~loaded
    /\ loaded' = TRUE
    /\ environment' = lit
    /\ UNCHANGED <<variant, observed>>

(* Faulty variants of the two module files: each is the file with one slip *)
(* in its literal.  None of them is part of Next.                          *)

\* environment.prod.ts with a key the other file lacks.
LoadProdTsExtraKey ==
    Evaluate(ProdTs,
        [EnvironmentProdTs EXCEPT !.auth0 = ("scope" :> "openid profile") @@ @])

\* environment.prod.ts with the scheme of callbackURL left out.
LoadProdTsCallbackNoScheme ==
    Evaluate(ProdTs,
        [EnvironmentProdTs EXCEPT !.auth0.callbackURL = "localhost:8100"])

\* environment.prod.ts with a plain-http API server.
LoadProdTsHttpApi ==
    Evaluate(ProdTs,
        [EnvironmentProdTs EXCEPT
            !.apiServerUrl = "http://coffee-shop-backend.onrender.com/"])

\* environment.prod.ts with the audience of the other deployment.
LoadProdTsVercelAudience ==
    Evaluate(ProdTs,
        [EnvironmentProdTs EXCEPT
            !.auth0.audience = "https://coffee-shop-delta.vercel.app"])

\* environment.prod.ts with the trailing slash of apiServerUrl left out.
LoadProdTsApiNoSlash ==
    Evaluate(ProdTs,
        [EnvironmentProdTs EXCEPT
            !.apiServerUrl = "https://coffee-shop-backend.onrender.com"])

\* src/frontend/src/environments/environment.prod.ts
LoadProdTs == Evaluate(ProdTs, EnvironmentProdTs)

\* part_000 with an empty client id.
LoadPart000EmptyClientId ==
    Evaluate(Part000, [EnvironmentPart000 EXCEPT !.auth0.clientId = ""])

\* part_000 with the client id of another application.
LoadPart000OtherClientId ==
    Evaluate(Part000,
        [EnvironmentPart000 EXCEPT
            !.auth0.clientId = "7foUBjR8Uys0PRrhAEVJ5BF6lltFsYBX"])

\* part_000 with a trailing slash on callbackURL.
LoadPart000CallbackSlash ==
    Evaluate(Part000,
        [EnvironmentPart000 EXCEPT
            !.auth0.callbackURL = "https://coffee-shop-delta.vercel.app/"])

\* part_000 with a scheme in front of the auth0 domain.
LoadPart000DomainWithScheme ==
    Evaluate(Part000,
        [EnvironmentPart000 EXCEPT !.auth0.url = "https://amrikhudair.eu"])

\* src/unnamed/part_000
LoadPart000 == Evaluate(Part000, EnvironmentPart000)

\* An importer that writes what it read back into the record, with a
\* trailing slash dropped.
ReadAndNormalise(r, f) ==
    /\ loaded
    /\ observed' =
         [observed EXCEPT ![r] =
            [g \in DOMAIN observed[r] \cup {f} |->
                IF g = f THEN Get(environment, f) ELSE observed[r][g]]]
    /\ environment' =
         IF f = "apiServerUrl"
         THEN [environment EXCEPT
                 !.apiServerUrl = SubSeq(@, 1, Len(@) - 1)]
         ELSE environment
    /\ UNCHANGED <<variant, loaded>>

\* Importer r reads field f of the exported record.
Read(r, f) ==
    /\ loaded
    /\ observed' =
         [observed EXCEPT ![r] =
            [g \in DOMAIN observed[r] \cup {f} |->
                IF g = f THEN Get(environment, f) ELSE observed[r][g]]]
    /\ UNCHANGED <<variant, loaded, environment>>

Next ==
    \/ LoadProdTs
    \/ LoadPart000
    \/ \E r \in Readers, f \in Fields : Read(r, f)

Spec == Init /\ [][Next]_vars

----------------------------------------------------------------------------
(* Strings and URLs, as the properties below read them.                    *)

Lower  == { "a","b","c","d","e","f","g","h","i","j","k","l","m",
            "n","o","p","q","r","s","t","u","v","w","x","y","z" }
Upper  == { "A","B","C","D","E","F","G","H","I","J","K","L","M",
            "N","O","P","Q","R","S","T","U","V","W","X","Y","Z" }
Digits == { "0","1","2","3","4","5","6","7","8","9" }

CharAt(s, i)  == SubSeq(s, i, i)
CharsOf(s)    == { CharAt(s, i) : i \in 1..Len(s) }
MinOf(S)      == CHOOSE m \in S : \A n \in S : m <= n

\* The positions at which sub occurs in s.
Occurrences(s, sub) ==
    { i \in 1..(Len(s) - Len(sub) + 1) : SubSeq(s, i, i + Len(sub) - 1) = sub }

\* The first position of sub in s, 0 when there is none.
IndexOf(s, sub) ==
    IF Occurrences(s, sub) = {} THEN 0 ELSE MinOf(Occurrences(s, sub))

\* The first position in s of a character of set cs, 0 when there is none.
IndexOfAny(s, cs) ==
    LET at == { i \in 1..Len(s) : CharAt(s, i) \in cs }
    IN  IF at = {} THEN 0 ELSE MinOf(at)

StartsWith(s, pre) == Len(pre) <= Len(s) /\ SubSeq(s, 1, Len(pre)) = pre
EndsWith(s, suf) ==
    Len(suf) <= Len(s) /\ SubSeq(s, Len(s) - Len(suf) + 1, Len(s)) = suf

\* scheme "://" authority [path]: the parts of an absolute URL; a string
\* without "://" has no scheme and no authority.
Scheme(u) ==
    LET i == IndexOf(u, "://") IN IF i = 0 THEN "" ELSE SubSeq(u, 1, i - 1)

AfterScheme(u) ==
    LET i == IndexOf(u, "://") IN IF i = 0 THEN "" ELSE SubSeq(u, i + 3, Len(u))

Authority(u) ==
    LET rest == AfterScheme(u)
        j    == IndexOfAny(rest, {"/", "?", "#"})
    IN  IF j = 0 THEN rest ELSE SubSeq(rest, 1, j - 1)

\* What follows the authority: the path, with any query and fragment.
PathOf(u) ==
    LET rest == AfterScheme(u)
    IN  SubSeq(rest, Len(Authority(u)) + 1, Len(rest))

Host(u) ==
    LET a == Authority(u)
        k == IndexOf(a, ":")
    IN  IF k = 0 THEN a ELSE SubSeq(a, 1, k - 1)

\* The port with its colon, "" when the authority names none.
PortPart(u) ==
    LET a == Authority(u)
        k == IndexOf(a, ":")
    IN  IF k = 0 THEN "" ELSE SubSeq(a, k, Len(a))

IsSchemeName(t) ==
    /\ Len(t) > 0
    /\ CharAt(t, 1) \in Lower \cup Upper
    /\ CharsOf(t) \subseteq Lower \cup Upper \cup Digits \cup {"+", "-", "."}

\* Dot-separated non-empty labels of letters, digits and hyphens.
IsHostName(h) ==
    /\ Len(h) > 0
    /\ CharsOf(h) \subseteq Lower \cup Upper \cup Digits \cup {"-", "."}
    /\ ~StartsWith(h, ".")
    /\ ~EndsWith(h, ".")
    /\ IndexOf(h, "..") = 0

IsPortPart(p) ==
    p = "" \/ ( /\ Len(p) > 1
                /\ CharAt(p, 1) = ":"
                /\ CharsOf(SubSeq(p, 2, Len(p))) \subseteq Digits )

\* A scheme, "://" and a non-empty host.
IsAbsoluteUrl(u) ==
    /\ IndexOf(u, "://") > 0
    /\ IsSchemeName(Scheme(u))
    /\ IsHostName(Host(u))
    /\ IsPortPart(PortPart(u))

----------------------------------------------------------------------------
(* Properties.                                                             *)

TopLevelKeys == {"production", "apiServerUrl", "auth0"}
Auth0Keys    == {"url", "audience", "clientId", "callbackURL"}

\* The module file that was not bundled.
OtherVariants == Variants \ {variant}

\* Importer r has read field f.
HasRead(r, f) == f \in DOMAIN observed[r]

\* C1: in each variant, once loaded, the six fields production,
\* apiServerUrl, auth0.url, auth0.audience, auth0.clientId and
\* auth0.callbackURL are present and each of the five string fields is a
\* non-empty string.
C1_AllFieldsPresentAndNonEmpty ==
    loaded =>
        /\ TopLevelKeys \subseteq DOMAIN environment
        /\ Auth0Keys \subseteq DOMAIN environment.auth0
        /\ \A f \in StringFields :
              /\ Get(environment, f) \in STRING
              /\ Len(Get(environment, f)) > 0

\* part_000 is loaded and an importer has read all six fields.
C1_Witness ==
    /\ loaded
    /\ variant = Part000
    /\ DOMAIN observed["authService"] = Fields
    /\ \A f \in StringFields : Len(observed["authService"][f]) > 0

\* C2: both variants have the same key set with the same nesting: top-level
\* keys exactly {production, apiServerUrl, auth0}, auth0 keys exactly
\* {url, audience, clientId, callbackURL}, production a boolean and every
\* other leaf a string.
C2_SameShape ==
    loaded =>
        /\ DOMAIN environment = TopLevelKeys
        /\ DOMAIN environment.auth0 = Auth0Keys
        /\ environment.production \in BOOLEAN
        /\ \A f \in StringFields : Get(environment, f) \in STRING
        /\ \A v \in OtherVariants :
              /\ DOMAIN ModuleLiteral(v) = DOMAIN environment
              /\ DOMAIN ModuleLiteral(v).auth0 = DOMAIN environment.auth0
              /\ ModuleLiteral(v).production \in BOOLEAN
              /\ \A f \in StringFields : Get(ModuleLiteral(v), f) \in STRING

\* environment.prod.ts is loaded and nothing has been read from it yet.
C2_Witness ==
    /\ loaded
    /\ variant = ProdTs
    /\ DOMAIN environment = TopLevelKeys
    /\ \A r \in Readers : observed[r] = NothingRead

\* C3: the variants differ only in auth0.audience and auth0.callbackURL:
\* production, apiServerUrl, auth0.url and auth0.clientId are equal in both,
\* auth0.audience differs and auth0.callbackURL differs.
C3_DifferOnlyInAudienceAndCallback ==
    loaded =>
        \A v \in OtherVariants :
            /\ \A f \in {"production", "apiServerUrl", "auth0.url", "auth0.clientId"} :
                  Get(environment, f) = Get(ModuleLiteral(v), f)
            /\ environment.auth0.audience # ModuleLiteral(v).auth0.audience
            /\ environment.auth0.callbackURL # ModuleLiteral(v).auth0.callbackURL

\* part_000 is loaded and the HTTP client has read the two differing fields
\* and a shared one.
C3_Witness ==
    /\ loaded
    /\ variant = Part000
    /\ DOMAIN observed["httpClient"] =
          {"auth0.audience", "auth0.callbackURL", "auth0.clientId"}
    /\ observed["httpClient"]["auth0.audience"]
          # EnvironmentProdTs.auth0.audience
    /\ observed["httpClient"]["auth0.clientId"]
          = EnvironmentProdTs.auth0.clientId

\* C4: loading environment.prod.ts yields apiServerUrl =
\* "https://coffee-shop-backend.onrender.com/"; loading part_000 yields the
\* same apiServerUrl and auth0.callbackURL =
\* "https://coffee-shop-delta.vercel.app".
C4_LoadedValues ==
    /\ (loaded /\ variant = ProdTs) =>
          environment.apiServerUrl = "https://coffee-shop-backend.onrender.com/"
    /\ (loaded /\ variant = Part000) =>
          /\ environment.apiServerUrl = "https://coffee-shop-backend.onrender.com/"
          /\ environment.auth0.callbackURL = "https://coffee-shop-delta.vercel.app"

\* part_000 is loaded and the authentication integration has read the
\* callback URL.
C4_Witness ==
    /\ loaded
    /\ variant = Part000
    /\ HasRead("authService", "auth0.callbackURL")
    /\ observed["authService"]["auth0.callbackURL"]
          = "https://coffee-shop-delta.vercel.app"

\* C5: in both variants auth0.audience and auth0.callbackURL are well-formed
\* absolute URLs: a scheme, "://" and a non-empty host.
C5_AudienceAndCallbackAbsolute ==
    loaded =>
        /\ IsAbsoluteUrl(environment.auth0.audience)
        /\ IsAbsoluteUrl(environment.auth0.callbackURL)

\* environment.prod.ts is loaded: its callback URL has scheme http, host
\* localhost and a port.
C5_Witness ==
    /\ loaded
    /\ variant = ProdTs
    /\ Scheme(environment.auth0.callbackURL) = "http"
    /\ Host(environment.auth0.callbackURL) = "localhost"
    /\ PortPart(environment.auth0.callbackURL) = ":8100"

\* C6: in both variants apiServerUrl is a well-formed absolute URL whose
\* scheme is https.
C6_ApiServerUrlHttps ==
    loaded =>
        /\ IsAbsoluteUrl(environment.apiServerUrl)
        /\ Scheme(environment.apiServerUrl) = "https"

\* The HTTP client has read the API server URL.
C6_Witness ==
    /\ loaded
    /\ HasRead("httpClient", "apiServerUrl")
    /\ Host(observed["httpClient"]["apiServerUrl"])
          = "coffee-shop-backend.onrender.com"

\* Every importer holds, for each field it has read, the value the record
\* holds.
ObservedIsCurrent ==
    \A r \in Readers : \A f \in DOMAIN observed[r] :
        observed[r][f] = Get(environment, f)

\* C7: after the record is loaded no step changes any of its fields, under
\* any interleaving of reads by its importers; every field holds the value
\* it had at load and every importer observes the same values.
C7_ImmutableAfterLoad ==
    /\ [](loaded => environment = ModuleLiteral(variant) /\ ObservedIsCurrent)
    /\ [][loaded => (loaded' /\ environment' = environment)]_vars

\* Both importers have read every field and got the same values.
C7_Witness ==
    /\ loaded
    /\ \A r \in Readers : DOMAIN observed[r] = Fields
    /\ observed["httpClient"] = observed["authService"]

\* The host of URL u lies under the reserved top-level domain "test".
OnTestDomain(u) == EndsWith(Host(u), ".test")

\* The host of URL u is a subdomain the Vercel platform assigns.
OnPlatformDomain(u) == EndsWith(Host(u), ".vercel.app")

OnLocalhost(u) == Host(u) = "localhost"

\* C8, as stated: of the two variants one has auth0.audience and
\* auth0.callbackURL pointing to a custom test domain and the other has both
\* pointing to a hosting-platform-assigned domain.
C8_TestDomainAndPlatformDomain ==
    LET test(e) == /\ OnTestDomain(e.auth0.audience)
                   /\ OnTestDomain(e.auth0.callbackURL)
        plat(e) == /\ OnPlatformDomain(e.auth0.audience)
                   /\ OnPlatformDomain(e.auth0.callbackURL)
    IN  loaded =>
            \A v \in OtherVariants :
                \/ test(environment) /\ plat(ModuleLiteral(v))
                \/ plat(environment) /\ test(ModuleLiteral(v))

\* C8, amended: of the two variants one has auth0.audience pointing to a
\* custom test domain and auth0.callbackURL pointing to localhost, and the
\* other has both pointing to a hosting-platform-assigned domain.
C8_TestAudienceLocalCallbackAndPlatformDomain ==
    LET test(e) == /\ OnTestDomain(e.auth0.audience)
                   /\ OnLocalhost(e.auth0.callbackURL)
        plat(e) == /\ OnPlatformDomain(e.auth0.audience)
                   /\ OnPlatformDomain(e.auth0.callbackURL)
    IN  loaded =>
            \A v \in OtherVariants :
                \/ test(environment) /\ plat(ModuleLiteral(v))
                \/ plat(environment) /\ test(ModuleLiteral(v))

\* environment.prod.ts is loaded and the authentication integration has
\* read an audience on the test domain and a callback URL on localhost.
C8_Witness ==
    /\ loaded
    /\ variant = ProdTs
    /\ HasRead("authService", "auth0.audience")
    /\ HasRead("authService", "auth0.callbackURL")
    /\ OnTestDomain(observed["authService"]["auth0.audience"])
    /\ OnLocalhost(observed["authService"]["auth0.callbackURL"])

\* C9: in both variants auth0.url is a host-like token with no URL scheme
\* (no "://"), and production is true.
C9_DomainHasNoSchemeAndProduction ==
    loaded =>
        /\ IsHostName(environment.auth0.url)
        /\ IndexOf(environment.auth0.url, "://") = 0
        /\ environment.production = TRUE

\* part_000 is loaded and the authentication integration has read the
\* domain and the production flag.
C9_Witness ==
    /\ loaded
    /\ variant = Part000
    /\ DOMAIN observed["authService"] = {"auth0.url", "production"}
    /\ observed["authService"]["auth0.url"] = "amrikhudair.eu"
    /\ observed["authService"]["production"]

\* Paths a consumer appends to the API server URL.
RelativePaths == {"drinks", "drinks-detail", "drinks/1"}

\* C10: in both variants apiServerUrl ends with "/" while auth0.audience and
\* auth0.callbackURL do not; so appending a relative path to apiServerUrl
\* gives exactly one separator between host and path.
C10_TrailingSlash ==
    loaded =>
        /\ EndsWith(environment.apiServerUrl, "/")
        /\ ~EndsWith(environment.auth0.audience, "/")
        /\ ~EndsWith(environment.auth0.callbackURL, "/")
        /\ \A rel \in RelativePaths :
              LET joined == environment.apiServerUrl \o rel
              IN  /\ Host(joined) = Host(environment.apiServerUrl)
                  /\ PathOf(joined) = "/" \o rel

\* The HTTP client has read the API server URL and appended "drinks".
C10_Witness ==
    /\ loaded
    /\ HasRead("httpClient", "apiServerUrl")
    /\ observed["httpClient"]["apiServerUrl"] \o "drinks"
          = "https://coffee-shop-backend.onrender.com/drinks"

====
